---- MODULE Spec2Model ----
(***************************************************************************)
(* Model of main.py, the Streamlit page that creates IAM users for         *)
(* workshop participants.                                                  *)
(*                                                                         *)
(* A text value is a sequence of fragments (one-character strings for the  *)
(* typed username, longer literals for the fixed parts of an f-string) and *)
(* string concatenation is \o.  An optional value is a sequence of length  *)
(* 0 (None / key absent) or 1.                                             *)
(***************************************************************************)
EXTENDS Naturals, Sequences, FiniteSets, TLC

VARIABLES
  secrets,        \* st.secrets, None when st has no such attribute
  environ,        \* os.environ restricted to the AWS_* variables
  clientAttrs,    \* private attributes the boto3 IAM client object exposes
  iam,            \* the IAM account: users, login profiles, group members
  session_state,  \* st.session_state: success_message, error_message, result
  run,            \* the last script run: the submission and what create_iam_user did
  display         \* what the last script run rendered

vars == <<secrets, environ, clientAttrs, iam, session_state, run, display>>

----------------------------------------------------------------------------
(* Bounds and input alphabets *)

MaxLen == 2

\* characters the operator can type into the text input
Chars == {"a", " "}

\* characters IAM accepts in a user name ([\w+=,.@-]+); the blank is not one
NameChars == {"a"}

SeqsUpTo(S, n) == UNION {[1..k -> S] : k \in 0..n}

\* values of st.text_input("Enter Username")
Inputs == SeqsUpTo(Chars, MaxLen)

None == <<>>
Some(x) == <<x>>

----------------------------------------------------------------------------
(* Credential resolution *)

\* the secrets sources considered: st without a secrets attribute, secrets
\* without an aws section, an aws section without region_name, an aws section
\* with region_name
SecretsKinds == {"no-attribute", "no-section", "aws", "aws+region"}

SecretsOf(kind) ==
  CASE kind = "no-attribute" -> None
    [] kind = "no-section" -> Some([other |-> "x"])
    [] kind = "aws" ->
         Some([aws |-> [aws_access_key_id |-> "SECRETS_KEY_ID",
                        aws_secret_access_key |-> "SECRETS_SECRET"]])
    [] kind = "aws+region" ->
         Some([aws |-> [aws_access_key_id |-> "SECRETS_KEY_ID",
                        aws_secret_access_key |-> "SECRETS_SECRET",
                        region_name |-> "eu-west-1"]])

EnvValue(k) ==
  CASE k = "AWS_ACCESS_KEY_ID" -> "ENV_KEY_ID"
    [] k = "AWS_SECRET_ACCESS_KEY" -> "ENV_SECRET"
    [] k = "AWS_REGION" -> "eu-north-1"

EnvKeys == {"AWS_ACCESS_KEY_ID", "AWS_SECRET_ACCESS_KEY", "AWS_REGION"}

EnvironOf(K) == [k \in K |-> EnvValue(k)]

\* dict.get(key, default)
Get(d, key, default) == IF key \in DOMAIN d THEN d[key] ELSE default

\* a plausible slip: the environment is consulted before the secrets source
\* and one of the two variables is enough
get_aws_credentials_env_first ==
  IF \E key \in {"AWS_ACCESS_KEY_ID", "AWS_SECRET_ACCESS_KEY"} : key \in DOMAIN environ
  THEN Some([aws_access_key_id |-> Get(environ, "AWS_ACCESS_KEY_ID", "missing"),
             aws_secret_access_key |-> Get(environ, "AWS_SECRET_ACCESS_KEY", "missing"),
             region_name |-> Get(environ, "AWS_REGION", "us-east-1")])
  ELSE IF secrets # None /\ "aws" \in DOMAIN secrets[1]
  THEN Some([aws_access_key_id |-> secrets[1].aws.aws_access_key_id,
             aws_secret_access_key |-> secrets[1].aws.aws_secret_access_key,
             region_name |-> Get(secrets[1].aws, "region_name", "ap-south-1")])
  ELSE None

get_aws_credentials ==
  IF secrets # None /\ "aws" \in DOMAIN secrets[1]
  THEN Some([aws_access_key_id |-> secrets[1].aws.aws_access_key_id,
             aws_secret_access_key |-> secrets[1].aws.aws_secret_access_key,
             region_name |-> Get(secrets[1].aws, "region_name", "ap-south-1")])
  ELSE IF \A key \in {"AWS_ACCESS_KEY_ID", "AWS_SECRET_ACCESS_KEY"} : key \in DOMAIN environ
  THEN Some([aws_access_key_id |-> environ["AWS_ACCESS_KEY_ID"],
             aws_secret_access_key |-> environ["AWS_SECRET_ACCESS_KEY"],
             region_name |-> Get(environ, "AWS_REGION", "us-east-1")])
  ELSE None

----------------------------------------------------------------------------
(* Password *)

PasswordSuffix == <<"@", "e", "n", "c", "o", "d", "e", "2", "0", "2", "5">>

\* a plausible slip: the suffix without its separator
create_password_no_at(username) == username \o Tail(PasswordSuffix)

create_password(username) == username \o PasswordSuffix

----------------------------------------------------------------------------
(* The identity-management API as the program sees it.  Every operation    *)
(* takes the disposition the service and the network have for this request *)
(* ("ok": the request is processed on its merits; a ClientError code: the   *)
(* service rejects it; "BotoCoreError": the client library raises an error  *)
(* that is not a ClientError, e.g. a connection failure) and yields the     *)
(* outcome, the account afterwards and the record of the call.             *)

ClientErrorCodes ==
  {"AccessDenied", "ValidationError", "EntityAlreadyExists",
   "PasswordPolicyViolation", "NoSuchEntity"}

CreateUserDispositions == {"ok", "AccessDenied", "BotoCoreError"}
CreateLoginProfileDispositions == {"ok", "PasswordPolicyViolation", "BotoCoreError"}
AddUserToGroupDispositions == {"ok", "NoSuchEntity", "BotoCoreError"}

ValidName(u) == Len(u) > 0 /\ \A i \in 1..Len(u) : u[i] \in NameChars

Arn(u) == <<"arn:aws:iam::123456789012:user/">> \o u

Call(op, user, password, reset, group, outcome) ==
  [op |-> op, UserName |-> user, Password |-> password,
   PasswordResetRequired |-> reset, GroupName |-> group, outcome |-> outcome]

\* iam.create_user(UserName=username)
ApiCreateUser(acct, username, disposition) ==
  LET outcome == IF disposition # "ok" THEN disposition
                 ELSE IF ~ValidName(username) THEN "ValidationError"
                 ELSE IF username \in acct.users THEN "EntityAlreadyExists"
                 ELSE "ok"
  IN [outcome |-> outcome,
      acct |-> IF outcome = "ok"
               THEN [acct EXCEPT !.users = @ \cup {username}]
               ELSE acct,
      call |-> Call("CreateUser", Some(username), None, "n/a", None, outcome)]

\* iam.create_login_profile(UserName=..., Password=..., PasswordResetRequired=False)
ApiCreateLoginProfile(acct, username, password, reset, disposition) ==
  LET outcome == IF disposition # "ok" THEN disposition
                 ELSE IF username \notin acct.users THEN "NoSuchEntity"
                 ELSE IF \E p \in acct.loginProfiles : p.UserName = username
                      THEN "EntityAlreadyExists"
                 ELSE "ok"
  IN [outcome |-> outcome,
      acct |-> IF outcome = "ok"
               THEN [acct EXCEPT !.loginProfiles = @ \cup
                       {[UserName |-> username, Password |-> password,
                         PasswordResetRequired |-> reset]}]
               ELSE acct,
      call |-> Call("CreateLoginProfile", Some(username), Some(password), reset,
                    None, outcome)]

\* iam.add_user_to_group(GroupName=group_name, UserName=username)
ApiAddUserToGroup(acct, group_name, username, disposition) ==
  LET outcome == IF disposition # "ok" THEN disposition
                 ELSE IF username \notin acct.users THEN "NoSuchEntity"
                 ELSE "ok"
  IN [outcome |-> outcome,
      acct |-> IF outcome = "ok"
               THEN [acct EXCEPT !.groupMembers = @ \cup
                       {[GroupName |-> group_name, UserName |-> username]}]
               ELSE acct,
      call |-> Call("AddUserToGroup", Some(username), None, "n/a",
                    Some(group_name), outcome)]

\* str(e) of a botocore ClientError
ClientErrorStr(code, op) ==
  <<"An error occurred (", code, ") when calling the ", op, " operation">>

----------------------------------------------------------------------------
(* Sign-in URL *)

DefaultSigninUrl == <<"https://signin.aws.amazon.com/console">>

SigninUrlFor(identifier) ==
  <<"https://">> \o identifier \o <<".signin.aws.amazon.com/console">>

\* what list_account_aliases can answer: an error, or the list of aliases
AliasAnswers ==
  { [ok |-> FALSE, AccountAliases |-> <<>>],
    [ok |-> TRUE, AccountAliases |-> <<>>],
    [ok |-> TRUE, AccountAliases |-> << <<"workshop">>, <<"second">> >>] }

\* what sts get_caller_identity can answer: an error, or the account
StsAnswers ==
  { [ok |-> FALSE, Account |-> <<>>],
    [ok |-> TRUE, Account |-> <<"123456789012">>] }

\* the attribute sets the IAM client object may expose: released botocore
\* clients define no _serialize_handler, and reading an attribute a client
\* does not define raises AttributeError
ClientAttrChoices == { {"meta"}, {"meta", "_serialize_handler"} }

SimpleCall(op, outcome) == Call(op, None, None, "n/a", None, outcome)

WarningText(what) ==
  <<"Could not determine custom sign-in URL: ", what, ". Using default sign-in URL.">>

get_custom_signin_url(aliasAnswer, stsAnswer) ==
  IF ~aliasAnswer.ok
  THEN \* list_account_aliases raised: except Exception
       [url |-> DefaultSigninUrl,
        calls |-> <<SimpleCall("ListAccountAliases", "error")>>,
        warning |-> Some(WarningText("ListAccountAliases"))]
  ELSE IF aliasAnswer.AccountAliases # <<>>
  THEN [url |-> SigninUrlFor(aliasAnswer.AccountAliases[1]),
        calls |-> <<SimpleCall("ListAccountAliases", "ok")>>,
        warning |-> None]
  ELSE IF "_serialize_handler" \notin clientAttrs
  THEN \* iam_client._serialize_handler raises AttributeError before the
       \* sts client is built: except Exception
       [url |-> DefaultSigninUrl,
        calls |-> <<SimpleCall("ListAccountAliases", "ok")>>,
        warning |-> Some(WarningText("AttributeError"))]
  ELSE IF ~stsAnswer.ok
  THEN [url |-> DefaultSigninUrl,
        calls |-> <<SimpleCall("ListAccountAliases", "ok"),
                    SimpleCall("GetCallerIdentity", "error")>>,
        warning |-> Some(WarningText("GetCallerIdentity"))]
  ELSE [url |-> SigninUrlFor(stsAnswer.Account),
        calls |-> <<SimpleCall("ListAccountAliases", "ok"),
                    SimpleCall("GetCallerIdentity", "ok")>>,
        warning |-> None]

----------------------------------------------------------------------------
(* create_iam_user *)

DefaultGroup == "AWS_Participants"

Failure(error) == [success |-> FALSE, error |-> error]

Success(username, password, arn, signin_url) ==
  [success |-> TRUE, username |-> username, password |-> password, arn |-> arn,
   console_url |-> <<"https://console.aws.amazon.com/">>, signin_url |-> signin_url]

Returned(value) == [kind |-> "Returned", value |-> value]
Raised(what) == [kind |-> "Raised", value |-> <<what>>]
NotCalled == [kind |-> "NotCalled", value |-> <<>>]

\* except ClientError as e: return {"success": False, "error": str(e)};
\* any other exception propagates to the caller
ExceptClientError(outcome, op) ==
  IF outcome \in ClientErrorCodes
  THEN Returned(Failure(ClientErrorStr(outcome, op)))
  ELSE Raised(outcome)

\* a plausible slip: a request wrapped in its own try/except, so that the
\* sequence goes on after a failed request
Proceeds_always(outcome) == TRUE

\* a statement that raises ends the try block; the next statement runs only
\* when the request returned
Proceeds(outcome) == outcome = "ok"

\* a plausible slip: a compensating clean-up that takes the account back to
\* what it was when the call began
AccountAfterError_rollback(before, now) == before

\* the except clause returns (or the exception propagates) without touching
\* the account: what the requests did stays done
AccountAfterError(before, now) == now

\* The environment of one call is a record: the dispositions cu, lp, ag of
\* the three requests and the answers la, sts the two lookups have ready.

NoAliasAnswer == [ok |-> FALSE, AccountAliases |-> <<>>]
NoStsAnswer == [ok |-> FALSE, Account |-> <<>>]

\* the environment in which no request is reached
Idle == [cu |-> "ok", lp |-> "ok", ag |-> "ok", la |-> NoAliasAnswer,
         sts |-> NoStsAnswer]

\* The environments of a call with this username: a request the call never
\* reaches has no disposition to choose, so those components stay as in Idle.
EnvironmentsFor(username) ==
  IF username = <<>> \/ get_aws_credentials = None THEN {Idle}
  ELSE {[Idle EXCEPT !.cu = d] : d \in CreateUserDispositions \ {"ok"}}
       \cup
       (IF ApiCreateUser(iam, username, "ok").outcome # "ok" THEN {Idle}
        ELSE {[Idle EXCEPT !.lp = d] : d \in CreateLoginProfileDispositions \ {"ok"}}
             \cup {[Idle EXCEPT !.ag = d] : d \in AddUserToGroupDispositions \ {"ok"}}
             \cup {[Idle EXCEPT !.la = a] :
                     a \in {x \in AliasAnswers : ~x.ok \/ x.AccountAliases # <<>>}}
             \cup {[Idle EXCEPT !.la = a, !.sts = t] :
                     a \in {x \in AliasAnswers : x.ok /\ x.AccountAliases = <<>>},
                     t \in StsAnswers})

create_iam_user(username, group_name, env) ==
  LET aws_credentials == get_aws_credentials
      c1 == ApiCreateUser(iam, username, env.cu)
      password == create_password(username)
      c2 == ApiCreateLoginProfile(c1.acct, username, password, "False", env.lp)
      c3 == ApiAddUserToGroup(c2.acct, group_name, username, env.ag)
      s  == get_custom_signin_url(env.la, env.sts)
  IN IF aws_credentials = None
     THEN [ret |-> Returned(Failure(<<"AWS credentials not found.">>)),
           acct |-> iam, calls |-> <<>>, warning |-> None, lookup |-> None]
     ELSE IF ~Proceeds(c1.outcome)
     THEN [ret |-> ExceptClientError(c1.outcome, "CreateUser"),
           acct |-> AccountAfterError(iam, c1.acct), calls |-> <<c1.call>>,
           warning |-> None, lookup |-> None]
     ELSE IF ~Proceeds(c2.outcome)
     THEN [ret |-> ExceptClientError(c2.outcome, "CreateLoginProfile"),
           acct |-> AccountAfterError(iam, c2.acct), calls |-> <<c1.call, c2.call>>,
           warning |-> None, lookup |-> None]
     ELSE IF ~Proceeds(c3.outcome)
     THEN [ret |-> ExceptClientError(c3.outcome, "AddUserToGroup"),
           acct |-> AccountAfterError(iam, c3.acct),
           calls |-> <<c1.call, c2.call, c3.call>>,
           warning |-> None, lookup |-> None]
     ELSE [ret |-> Returned(Success(username, password, Arn(username), s.url)),
           acct |-> c3.acct, calls |-> <<c1.call, c2.call, c3.call>> \o s.calls,
           warning |-> s.warning,
           lookup |-> Some([la |-> env.la, sts |-> env.sts])]

----------------------------------------------------------------------------
(* Output formatting *)

create_credentials_text(username, password, arn, signin_url) ==
  <<"AWS WORKSHOP CREDENTIALS\n------------------------\nUsername: ">> \o username
  \o <<"\nPassword: ">> \o password
  \o <<"\nARN: ">> \o arn
  \o <<"\nConsole URL: https://console.aws.amazon.com/\nSign-in URL: ">> \o signin_url
  \o <<"\n\nInstructions:\n...">>

CredentialsFilename(username) == username \o <<"_credentials.txt">>

----------------------------------------------------------------------------
(* The script: form handler, then the display section *)

\* Python truthiness of an optional text
Truthy(opt) == opt # None /\ opt[1] # <<>>

Blank ==
  [exception |-> None, warning |-> None, success |-> None, details |-> None,
   download |-> None, code |-> None, file_error |-> FALSE, error |-> None]

\* lines 139-191: what the script renders from the session state
Render(ss, warning, fileOK) ==
  LET result == ss.result[1]
      credentials_text ==
        create_credentials_text(result.username, result.password, result.arn,
                                result.signin_url)
      filename == CredentialsFilename(result.username)
      top == IF ~Truthy(ss.success_message) THEN Blank
             ELSE IF ss.result = None
             THEN [Blank EXCEPT !.success = ss.success_message]
             ELSE IF fileOK
             THEN [Blank EXCEPT !.success = ss.success_message,
                     !.details = Some(result),
                     !.download = Some([file_name |-> filename,
                                        data |-> credentials_text]),
                     !.code = Some(credentials_text)]
             ELSE \* create_temp_file raised: the text is shown inline only
                  [Blank EXCEPT !.success = ss.success_message,
                     !.details = Some(result),
                     !.file_error = TRUE,
                     !.code = Some(credentials_text)]
  IN [top EXCEPT !.warning = warning,
        !.error = IF Truthy(ss.error_message) THEN ss.error_message ELSE None]

\* if not username
IsEmptyInput(username) == username = <<>>

\* lines 136-137
AfterFailure(ss, error) ==
  [ss EXCEPT !.error_message = Some(<<"Error: ">> \o error),
             !.success_message = None]

\* lines 132-134
AfterSuccess(ss, username, result) ==
  [ss EXCEPT !.success_message = Some(<<"User '">> \o username \o <<"' created!">>),
             !.error_message = None,
             !.result = Some(result)]

\* lines 127-128
AfterEmpty(ss) ==
  [ss EXCEPT !.error_message = Some(<<"Username cannot be empty!">>),
             !.success_message = None]

NoRun ==
  [submitted |-> FALSE, username |-> <<>>, credentials |-> None, ret |-> NotCalled,
   calls |-> <<>>, lookup |-> None]

\* whether the display section reaches create_temp_file
WritesFile(ss) == Truthy(ss.success_message) /\ ss.result # None

FileOutcomes(ss) == IF WritesFile(ss) THEN BOOLEAN ELSE {TRUE}

\* One script run with the form submitted: validation, create_iam_user, the
\* session-state update and the display section.  An exception that leaves
\* create_iam_user ends the script run: Streamlit shows the exception and
\* the rest of the script (the update and the display section) does not run.
Submit(username, env) ==
  /\ IF IsEmptyInput(username)
     THEN /\ session_state' = AfterEmpty(session_state)
          /\ iam' = iam
          /\ run' = [NoRun EXCEPT !.submitted = TRUE, !.username = username]
          /\ \E fileOK \in FileOutcomes(session_state') :
               display' = Render(session_state', None, fileOK)
     ELSE LET r == create_iam_user(username, DefaultGroup, env)
          IN /\ iam' = r.acct
             /\ run' = [submitted |-> TRUE, username |-> username,
                        credentials |-> Some(get_aws_credentials),
                        ret |-> r.ret, calls |-> r.calls, lookup |-> r.lookup]
             /\ IF r.ret.kind = "Raised"
                THEN /\ session_state' = session_state
                     /\ display' = [Blank EXCEPT !.exception = Some(r.ret.value[1])]
                ELSE /\ session_state' =
                          IF r.ret.value.success
                          THEN AfterSuccess(session_state, username, r.ret.value)
                          ELSE AfterFailure(session_state, r.ret.value.error)
                     /\ \E fileOK \in FileOutcomes(session_state') :
                          display' = Render(session_state', r.warning, fileOK)
  /\ UNCHANGED <<secrets, environ, clientAttrs>>

\* One script run without a submission (any other interaction, e.g. the
\* download button): only the display section acts.
Rerun(fileOK) ==
  /\ run' = NoRun
  /\ display' = Render(session_state, None, fileOK)
  /\ UNCHANGED <<secrets, environ, clientAttrs, iam, session_state>>

\* get_aws_credentials() applied to the configuration, on its own
Resolve ==
  /\ run' = [NoRun EXCEPT !.credentials = Some(get_aws_credentials)]
  /\ UNCHANGED <<secrets, environ, clientAttrs, iam, session_state, display>>

Fresh ==
  /\ clientAttrs \in ClientAttrChoices
  /\ iam = [users |-> {}, loginProfiles |-> {}, groupMembers |-> {}]
  /\ session_state = [success_message |-> None, error_message |-> None,
                      result |-> None]
  /\ run = NoRun
  /\ display = Blank

\* every configuration of the two credential sources
InitResolve ==
  /\ \E kind \in SecretsKinds : secrets = SecretsOf(kind)
  /\ \E K \in SUBSET EnvKeys : environ = EnvironOf(K)
  /\ Fresh

\* The page acts on the configuration only through get_aws_credentials, so
\* the page is explored from one configuration of each kind: nothing
\* configured, half an environment, a full environment.  SpecResolve covers
\* get_aws_credentials over every configuration.
Init ==
  /\ \E c \in { <<"no-section", {}>>,
               <<"no-section", {"AWS_ACCESS_KEY_ID"}>>,
               <<"no-section", {"AWS_ACCESS_KEY_ID", "AWS_SECRET_ACCESS_KEY"}>> } :
       /\ secrets = SecretsOf(c[1])
       /\ environ = EnvironOf(c[2])
  /\ Fresh

SubmitForm == \E username \in Inputs : \E env \in EnvironmentsFor(username) :
                Submit(username, env)

RerunScript == \E fileOK \in FileOutcomes(session_state) : Rerun(fileOK)

Next == SubmitForm \/ RerunScript

Spec == Init /\ [][Next]_vars

NextResolve == Resolve

SpecResolve == InitResolve /\ [][NextResolve]_vars

----------------------------------------------------------------------------
(* Vocabulary of the properties *)

\* the last script run invoked create_iam_user
Invoked == run.submitted /\ run.ret.kind # "NotCalled"

ReturnedSuccess == run.ret.kind = "Returned" /\ run.ret.value.success

ReturnedFailure == run.ret.kind = "Returned" /\ ~run.ret.value.success

Ops == [i \in 1..Len(run.calls) |-> run.calls[i].op]

IsPrefix(p, q) == Len(p) <= Len(q) /\ \A i \in 1..Len(p) : p[i] = q[i]

\* the request op for user u was sent in the last call and returned
Completed(op, u) ==
  \E i \in 1..Len(run.calls) :
    /\ run.calls[i].op = op
    /\ run.calls[i].UserName = Some(u)
    /\ run.calls[i].outcome = "ok"

ProvisioningOps == <<"CreateUser", "CreateLoginProfile", "AddUserToGroup">>

\* the position of the first of the three provisioning requests that raised
FailedAt(i) ==
  /\ i \in 1..Len(run.calls)
  /\ i <= Len(ProvisioningOps)
  /\ run.calls[i].outcome # "ok"

IsBlankInput(u) == \A i \in 1..Len(u) : u[i] = " "

----------------------------------------------------------------------------
(* C1: a Success is returned only by a call in which create-account,        *)
(* set-password and assign-group all completed for the submitted username,  *)
(* and a stored Success belongs to a user that has all three in the account *)
C1_SuccessOnlyAfterAllThree ==
  /\ ReturnedSuccess =>
       /\ run.ret.value.username = run.username
       /\ \A k \in 1..Len(ProvisioningOps) : Completed(ProvisioningOps[k], run.username)
  /\ session_state.result # None =>
       LET u == session_state.result[1].username
       IN /\ session_state.result[1].success
          /\ u \in iam.users
          /\ \E p \in iam.loginProfiles : p.UserName = u
          /\ [GroupName |-> DefaultGroup, UserName |-> u] \in iam.groupMembers

C1_Witness ==
  /\ ReturnedSuccess
  /\ Len(run.calls) >= Len(ProvisioningOps)
  /\ session_state.result = Some(run.ret.value)

(* C2: with no credentials configured, create_iam_user returns Failure     *)
(* "AWS credentials not found." and sends no request at all                *)
NothingConfigured ==
  /\ ~(secrets # None /\ "aws" \in DOMAIN secrets[1])
  /\ ~({"AWS_ACCESS_KEY_ID", "AWS_SECRET_ACCESS_KEY"} \subseteq DOMAIN environ)

C2_NoCredentialsNoCalls ==
  (Invoked /\ NothingConfigured) =>
    /\ run.ret = Returned(Failure(<<"AWS credentials not found.">>))
    /\ Len(run.calls) = 0
    /\ iam.users = {}

C2_Witness == Invoked /\ NothingConfigured /\ DOMAIN environ # {}

(* C3: a submission whose username is empty or only whitespace never       *)
(* invokes create_iam_user, sends no request, and produces "Username       *)
(* cannot be empty!"                                                       *)
C3_BlankNeverInvokes ==
  (run.submitted /\ IsBlankInput(run.username)) =>
    /\ ~Invoked
    /\ Len(run.calls) = 0
    /\ session_state.error_message = Some(<<"Username cannot be empty!">>)

(* C4: an error raised at create-account, set-password or assign-group     *)
(* ends the call there: Failure with the error's description is returned,  *)
(* no later request is sent, and nothing leaves create_iam_user as an      *)
(* exception                                                               *)
C4_ErrorsBecomeFailure ==
  \A i \in 1..Len(ProvisioningOps) :
    FailedAt(i) =>
      /\ Len(run.calls) = i
      /\ run.ret.kind = "Returned"
      /\ run.ret.value = Failure(ClientErrorStr(run.calls[i].outcome, ProvisioningOps[i]))

(* C5 as stated, in the least it says: of two calls in a row with the     *)
(* same username, the second does not succeed and creates nothing (the     *)
(* claim adds that it returns Failure with the duplicate-entity error)     *)
C5_SecondCallFails ==
  [][ (Invoked /\ Invoked' /\ run'.username = run.username) =>
        /\ ~ReturnedSuccess'
        /\ iam' = iam ]_vars

(* C5 as amended: a call with a username whose account already exists      *)
(* never returns Success and changes nothing in the account, and when the  *)
(* service answers the create-account request with the duplicate-entity    *)
(* error the call returns Failure carrying that error                      *)
C5_ExistingAccountFails ==
  [][ (Invoked' /\ run'.username \in iam.users) =>
        /\ ~ReturnedSuccess'
        /\ iam' = iam
        /\ Len(run'.calls) <= 1
        /\ (Len(run'.calls) = 1 /\ run'.calls[1].outcome = "EntityAlreadyExists") =>
             run'.ret = Returned(Failure(ClientErrorStr("EntityAlreadyExists",
                                                         "CreateUser"))) ]_vars

C5_Witness ==
  /\ Invoked
  /\ Len(run.calls) = 1
  /\ run.calls[1].outcome = "EntityAlreadyExists"
  /\ run.username \in iam.users
  /\ ReturnedFailure

(* C6: once the three requests succeeded the call returns Success whatever *)
(* the sign-in lookups do: the default URL when a lookup fails, the URL of *)
(* the first alias when there is one, the URL of the account identifier    *)
(* when there is no alias and the caller-identity lookup succeeds          *)
C6_SigninBestEffort ==
  /\ (\A k \in 1..Len(ProvisioningOps) : Completed(ProvisioningOps[k], run.username))
       => ReturnedSuccess
  /\ (ReturnedSuccess /\ run.lookup # None) =>
       LET la == run.lookup[1].la
           sts == run.lookup[1].sts
           url == run.ret.value.signin_url
       IN /\ ~la.ok => url = <<"https://signin.aws.amazon.com/console">>
          /\ (la.ok /\ Len(la.AccountAliases) > 0) =>
               url = <<"https://">> \o la.AccountAliases[1]
                       \o <<".signin.aws.amazon.com/console">>
          /\ (la.ok /\ Len(la.AccountAliases) = 0 /\ sts.ok) =>
               url = <<"https://">> \o sts.Account \o <<".signin.aws.amazon.com/console">>
          /\ (la.ok /\ Len(la.AccountAliases) = 0 /\ ~sts.ok) =>
               url = <<"https://signin.aws.amazon.com/console">>

(* C7: a successful call for username u returns username u and password    *)
(* u followed by "@encode2025", and that password is the one sent in the   *)
(* set-login-credential request, with password-reset-required false        *)
C7_PasswordIsUsernameAtEncode ==
  ReturnedSuccess =>
    LET u == run.username
        expected == u \o <<"@", "e", "n", "c", "o", "d", "e", "2", "0", "2", "5">>
    IN /\ Len(u) > 0
       /\ run.ret.value.username = u
       /\ run.ret.value.password = expected
       /\ \E i \in 1..Len(run.calls) :
            /\ run.calls[i].op = "CreateLoginProfile"
            /\ run.calls[i].UserName = Some(u)
            /\ run.calls[i].Password = Some(expected)
            /\ run.calls[i].PasswordResetRequired = "False"
       /\ [UserName |-> u, Password |-> expected, PasswordResetRequired |-> "False"]
            \in iam.loginProfiles

C7_Witness ==
  /\ ReturnedSuccess
  /\ Len(run.username) = MaxLen
  /\ Len(run.ret.value.password) = MaxLen + Len(PasswordSuffix)

(* C8: get_aws_credentials takes the aws section of the secrets source     *)
(* first (region ap-south-1 unless given), even when the environment is    *)
(* set; otherwise both environment variables (region us-east-1 unless      *)
(* AWS_REGION is set); otherwise, one variable alone included, nothing     *)
C8_ResolutionOrder ==
  run.credentials # None =>
    LET got == run.credentials[1]
        hasAws == secrets # None /\ "aws" \in DOMAIN secrets[1]
        env == DOMAIN environ
    IN IF hasAws
       THEN got = Some([aws_access_key_id |-> "SECRETS_KEY_ID",
                        aws_secret_access_key |-> "SECRETS_SECRET",
                        region_name |-> IF "region_name" \in DOMAIN secrets[1].aws
                                        THEN "eu-west-1" ELSE "ap-south-1"])
       ELSE IF "AWS_ACCESS_KEY_ID" \in env /\ "AWS_SECRET_ACCESS_KEY" \in env
       THEN got = Some([aws_access_key_id |-> "ENV_KEY_ID",
                        aws_secret_access_key |-> "ENV_SECRET",
                        region_name |-> IF "AWS_REGION" \in env
                                        THEN "eu-north-1" ELSE "us-east-1"])
       ELSE got = None

C8_Witness ==
  /\ run.credentials # None
  /\ secrets # None /\ "aws" \in DOMAIN secrets[1]
  /\ {"AWS_ACCESS_KEY_ID", "AWS_SECRET_ACCESS_KEY"} \subseteq DOMAIN environ
  /\ run.credentials[1][1].aws_access_key_id = "SECRETS_KEY_ID"

(* C9: within a call the requests go out in the order create-account,      *)
(* set-password, assign-group, sign-in lookups, each at most once, and no  *)
(* request follows one that failed; an account created by the call is      *)
(* still there after a later failure, and nothing in the account is ever   *)
(* removed                                                                 *)
C9_Order ==
  /\ IsPrefix(Ops, <<"CreateUser", "CreateLoginProfile", "AddUserToGroup",
                     "ListAccountAliases", "GetCallerIdentity">>)
  /\ \A i \in 1..Len(run.calls) : i < Len(run.calls) => run.calls[i].outcome = "ok"
  /\ Completed("CreateUser", run.username) => run.username \in iam.users
  /\ Completed("CreateLoginProfile", run.username) =>
       \E p \in iam.loginProfiles : p.UserName = run.username

C9_NothingRemoved ==
  /\ iam.users \subseteq iam'.users
  /\ iam.loginProfiles \subseteq iam'.loginProfiles
  /\ iam.groupMembers \subseteq iam'.groupMembers

C9_OrderNoRetryNoRollback == []C9_Order /\ [][C9_NothingRemoved]_vars

C9_Witness ==
  /\ Len(run.calls) = 2
  /\ run.calls[1].outcome = "ok"
  /\ run.calls[2].outcome # "ok"
  /\ run.username \in iam.users
  /\ ~(\E p \in iam.loginProfiles : p.UserName = run.username)

(* C10: after a submission the session state reflects that submission:     *)
(* exactly one of success_message and error_message is set; after a failed *)
(* one the error is shown and neither details nor download, whatever       *)
(* result is stored; after a successful one the details and the file       *)
(* {username}_credentials.txt show that submission's result                *)
C10_LastSubmissionWins ==
  run.submitted =>
    /\ (session_state.success_message = None) # (session_state.error_message = None)
    /\ ~ReturnedSuccess =>
         /\ display.error # None
         /\ display.error = session_state.error_message
         /\ display.success = None
         /\ display.details = None
         /\ display.download = None
    /\ ReturnedSuccess =>
         /\ display.error = None
         /\ display.details = Some(run.ret.value)
         /\ display.code =
              Some(create_credentials_text(run.username, run.ret.value.password,
                                           run.ret.value.arn, run.ret.value.signin_url))
         /\ display.download # None =>
              /\ display.download[1].file_name = run.username \o <<"_credentials.txt">>
              /\ display.download[1].data = display.code[1]

====
